---- MODULE Spec2Model ----
(***************************************************************************)
(* SANswTools, main.py: a zoneshow/switchshow text file is scanned by      *)
(* three line-oriented parsers (aliases, zones, port table); the port      *)
(* records are turned into Brocade alicreate / zonecreate commands.        *)
(*                                                                         *)
(* Text is modelled by TLA+ strings; every Python string builtin the code  *)
(* uses (strip, startswith, split, in, lower, isdigit, join, re.search) is *)
(* an operator computed character by character.  A Python value that may   *)
(* be None is a sequence of length 0 (None) or 1 (the value).              *)
(***************************************************************************)
EXTENDS Integers, Sequences, FiniteSets, TLC

VARIABLES
    pc,                     \* position in main()
    file,                   \* lines of source_file, newline removed
    cursor,                 \* index of the line the running "for line in f" reads next
    last_alias_name,        \* parse_aliases_from_txt
    alias_map,
    current_zone_name,      \* parse_zones_from_txt
    in_defined_config,
    alias_to_zone_map,
    existing_aliases,       \* main
    existing_zones,
    in_switchshow_section,  \* parse_switchshow_from_txt
    port_data,
    stopped_at,             \* line at which the port loop hit "break" (0: it did not)
    config_data,            \* main
    alias_commands,
    zone_commands,
    switch_commands,
    output_file,            \* contents written to switch_commands.txt, None if not written
    report_file,            \* rows exported to san_port_report.xlsx, None if not exported
    stderr                  \* the messages printed to sys.stderr, oldest first

vars == <<pc, file, cursor, last_alias_name, alias_map, current_zone_name,
          in_defined_config, alias_to_zone_map, existing_aliases, existing_zones,
          in_switchshow_section, port_data, stopped_at, config_data, alias_commands,
          zone_commands, switch_commands, output_file, report_file, stderr>>

(***************************************************************************)
(* Python values                                                           *)
(***************************************************************************)
None == <<>>
Some(v) == <<v>>
\* truth value of an Optional[str]: None and "" are both false
Truthy(o) == o # None /\ o[1] # ""

EmptyDict == [k \in {} |-> ""]
\* d[key] = value
DictSet(d, key, value) ==
    [k \in DOMAIN d \cup {key} |-> IF k = key THEN value ELSE d[k]]
\* d.get(key, default)
DictGet(d, key, default) == IF key \in DOMAIN d THEN d[key] ELSE default

(***************************************************************************)
(* Python string builtins                                                  *)
(***************************************************************************)
Char(s, i) == SubSeq(s, i, i)

IsSpace(c) == c \in {" ", "\t"}

RECURSIVE LStrip(_)
LStrip(s) == IF s # "" /\ IsSpace(Head(s)) THEN LStrip(Tail(s)) ELSE s

RECURSIVE RStrip(_)
RStrip(s) ==
    IF s # "" /\ IsSpace(Char(s, Len(s)))
    THEN RStrip(SubSeq(s, 1, Len(s) - 1))
    ELSE s

\* str.strip()
Strip(s) == RStrip(LStrip(s))

\* str.startswith(prefix)
StartsWith(s, prefix) ==
    Len(s) >= Len(prefix) /\ SubSeq(s, 1, Len(prefix)) = prefix

\* positions at which sub occurs in s
Occurrences(s, sub) ==
    {p \in 1..(Len(s) - Len(sub) + 1) : SubSeq(s, p, p + Len(sub) - 1) = sub}

\* sub in s
Contains(s, sub) == Occurrences(s, sub) # {}

Min(S) == CHOOSE m \in S : \A n \in S : m <= n

\* s.split(sep, 1) for a one-character sep: one part, or the parts before
\* and after the first sep
Split1(s, sep) ==
    IF Contains(s, sep)
    THEN LET p == Min(Occurrences(s, sep))
         IN  <<SubSeq(s, 1, p - 1), SubSeq(s, p + 1, Len(s))>>
    ELSE <<s>>

\* s.split(sep) for a one-character sep: every part, empty ones included
RECURSIVE SplitOn(_, _)
SplitOn(s, sep) ==
    IF Contains(s, sep)
    THEN LET p == Min(Occurrences(s, sep))
         IN  <<SubSeq(s, 1, p - 1)>> \o SplitOn(SubSeq(s, p + 1, Len(s)), sep)
    ELSE <<s>>

\* length of the run of non-whitespace characters s starts with
RECURSIVE TokenLen(_)
TokenLen(s) ==
    IF s = "" \/ IsSpace(Head(s)) THEN 0 ELSE 1 + TokenLen(Tail(s))

\* s.split(): the whitespace-delimited tokens
RECURSIVE SplitWs(_)
SplitWs(s) ==
    LET t == LStrip(s)
    IN  IF t = "" THEN <<>>
        ELSE <<SubSeq(t, 1, TokenLen(t))>>
                 \o SplitWs(SubSeq(t, TokenLen(t) + 1, Len(t)))

Digits == {"0", "1", "2", "3", "4", "5", "6", "7", "8", "9"}

\* str.isdigit()
IsDigit(s) == s # "" /\ \A p \in 1..Len(s) : Char(s, p) \in Digits

UpperCase == <<"A", "B", "C", "D", "E", "F", "G", "H", "I", "J", "K", "L", "M",
               "N", "O", "P", "Q", "R", "S", "T", "U", "V", "W", "X", "Y", "Z">>
LowerCase == <<"a", "b", "c", "d", "e", "f", "g", "h", "i", "j", "k", "l", "m",
               "n", "o", "p", "q", "r", "s", "t", "u", "v", "w", "x", "y", "z">>

LowerChar(c) ==
    IF \E k \in 1..26 : UpperCase[k] = c
    THEN LowerCase[CHOOSE k \in 1..26 : UpperCase[k] = c]
    ELSE c

\* str.lower()
RECURSIVE Lower(_)
Lower(s) == IF s = "" THEN "" ELSE LowerChar(Head(s)) \o Lower(Tail(s))

\* sep.join(parts)
RECURSIVE Join(_, _)
Join(parts, sep) ==
    IF parts = <<>> THEN ""
    ELSE IF Len(parts) = 1 THEN parts[1]
    ELSE parts[1] \o sep \o Join(Tail(parts), sep)

(***************************************************************************)
(* wwpn_regex = ([0-9a-f]{2}:){7}[0-9a-f]{2}, compiled without             *)
(* re.IGNORECASE                                                           *)
(***************************************************************************)
RegexHexClass == Digits \cup {"a", "b", "c", "d", "e", "f"}
WwpnGroups == 8
WwpnLen == 3 * WwpnGroups - 1

\* the regex matches s at position p
WwpnMatchesAt(s, p) ==
    /\ p + WwpnLen - 1 <= Len(s)
    /\ \A g \in 0..(WwpnGroups - 1) :
          /\ Char(s, p + 3 * g) \in RegexHexClass
          /\ Char(s, p + 3 * g + 1) \in RegexHexClass
    /\ \A g \in 0..(WwpnGroups - 2) : Char(s, p + 3 * g + 2) = ":"

\* wwpn_regex.search(s): group(0) of the leftmost match, or None
WwpnSearch(s) ==
    LET at == {p \in 1..Len(s) : WwpnMatchesAt(s, p)}
    IN  IF at = {} THEN None
        ELSE Some(SubSeq(s, Min(at), Min(at) + WwpnLen - 1))

(***************************************************************************)
(* The messages printed to sys.stderr, each by what it reports (the text   *)
(* also carries the path, the exception or the row); messages printed to   *)
(* stdout are not modelled.                                                *)
(***************************************************************************)
ErrMissingColumns == <<"excel: required columns missing">>
ErrFileNotFound == <<"file not found">>
ErrReadExcel == <<"excel: read error">>
WarnAliases == <<"warning: error while parsing aliases">>
WarnZones == <<"warning: error while parsing zones">>
ErrReadTxt == <<"txt: read or parse error">>
\* row is index + 2
WarnIncompleteRow(row) == <<"warning: incomplete row skipped", row>>
ErrExport == <<"report: export error">>
ErrWrite == <<"commands: write error">>

(***************************************************************************)
(* parse_aliases_from_txt                                                  *)
(***************************************************************************)
\* AliasLoopBody with the entry stored as alias name -> WWPN
AliasLoopBody_KeyedByName(name, map, line) ==
    LET clean_line == Strip(line)
    IN  IF StartsWith(clean_line, "alias:")
        THEN LET parts == Split1(clean_line, ":")
             IN  [last_alias_name |->
                      IF Len(parts) > 1 THEN Some(Strip(parts[2])) ELSE name,
                  alias_map |-> map]
        ELSE IF Truthy(name)
        THEN LET match == WwpnSearch(clean_line)
             IN  IF match # None
                 THEN [last_alias_name |-> None,
                       alias_map |-> DictSet(map, name[1], Lower(match[1]))]
                 ELSE [last_alias_name |-> name, alias_map |-> map]
        ELSE [last_alias_name |-> name, alias_map |-> map]

\* AliasLoopBody testing "last_alias_name is not None" in place of its truth
AliasLoopBody_BindsEmptyName(name, map, line) ==
    LET clean_line == Strip(line)
    IN  IF StartsWith(clean_line, "alias:")
        THEN LET parts == Split1(clean_line, ":")
             IN  [last_alias_name |->
                      IF Len(parts) > 1 THEN Some(Strip(parts[2])) ELSE name,
                  alias_map |-> map]
        ELSE IF name # None
        THEN LET match == WwpnSearch(clean_line)
             IN  IF match # None
                 THEN [last_alias_name |-> None,
                       alias_map |-> DictSet(map, Lower(match[1]), name[1])]
                 ELSE [last_alias_name |-> name, alias_map |-> map]
        ELSE [last_alias_name |-> name, alias_map |-> map]

\* AliasLoopBody keeping the first name bound to a WWPN
AliasLoopBody_FirstWins(name, map, line) ==
    LET clean_line == Strip(line)
    IN  IF StartsWith(clean_line, "alias:")
        THEN LET parts == Split1(clean_line, ":")
             IN  [last_alias_name |->
                      IF Len(parts) > 1 THEN Some(Strip(parts[2])) ELSE name,
                  alias_map |-> map]
        ELSE IF Truthy(name)
        THEN LET match == WwpnSearch(clean_line)
             IN  IF match # None
                 THEN [last_alias_name |-> None,
                       alias_map |->
                           IF Lower(match[1]) \in DOMAIN map THEN map
                           ELSE DictSet(map, Lower(match[1]), name[1])]
                 ELSE [last_alias_name |-> name, alias_map |-> map]
        ELSE [last_alias_name |-> name, alias_map |-> map]

\* one iteration of the loop body: the values of last_alias_name and
\* alias_map after the line
AliasLoopBody(name, map, line) ==
    LET clean_line == Strip(line)
    IN  IF StartsWith(clean_line, "alias:")
        THEN LET parts == Split1(clean_line, ":")
             IN  [last_alias_name |->
                      IF Len(parts) > 1 THEN Some(Strip(parts[2])) ELSE name,
                  alias_map |-> map]
        ELSE IF Truthy(name)
        THEN LET match == WwpnSearch(clean_line)
             IN  IF match # None
                 THEN [last_alias_name |-> None,
                       alias_map |-> DictSet(map, Lower(match[1]), name[1])]
                 ELSE [last_alias_name |-> name, alias_map |-> map]
        ELSE [last_alias_name |-> name, alias_map |-> map]

ParseAliasesLine ==
    /\ pc = "parse_aliases"
    /\ cursor <= Len(file)
    /\ LET after == AliasLoopBody(last_alias_name, alias_map, file[cursor])
       IN  /\ last_alias_name' = after.last_alias_name
           /\ alias_map' = after.alias_map
    /\ cursor' = cursor + 1
    /\ UNCHANGED <<pc, file, current_zone_name, in_defined_config, alias_to_zone_map,
                   existing_aliases, existing_zones, in_switchshow_section, port_data,
                   stopped_at, config_data, alias_commands, zone_commands,
                   switch_commands, output_file, report_file,
                   stderr>>

\* end of file: return alias_map to main, which calls parse_zones_from_txt
ParseAliasesReturn ==
    /\ pc = "parse_aliases"
    /\ cursor > Len(file)
    /\ existing_aliases' = alias_map
    /\ pc' = "parse_zones"
    /\ cursor' = 1
    /\ current_zone_name' = None
    /\ in_defined_config' = FALSE
    /\ alias_to_zone_map' = EmptyDict
    /\ UNCHANGED <<file, last_alias_name, alias_map, existing_zones,
                   in_switchshow_section, port_data, stopped_at, config_data,
                   alias_commands, zone_commands, switch_commands, output_file,
                   report_file,
                   stderr>>

\* the mapping returned once the except clause has run, cleared
AliasMapAfterException_Cleared(map) == EmptyDict

\* the mapping returned once the except clause has run: alias_map as it is
AliasMapAfterException(map) == map

\* open (before the first line) or the read of line cursor raises: the
\* except clause prints a warning and alias_map is returned to main
ParseAliasesFails ==
    /\ pc = "parse_aliases"
    /\ cursor <= Len(file) + 1
    /\ stderr' = Append(stderr, WarnAliases)
    /\ existing_aliases' = AliasMapAfterException(alias_map)
    /\ pc' = "parse_zones"
    /\ cursor' = 1
    /\ current_zone_name' = None
    /\ in_defined_config' = FALSE
    /\ alias_to_zone_map' = EmptyDict
    /\ UNCHANGED <<file, last_alias_name, alias_map, existing_zones,
                   in_switchshow_section, port_data, stopped_at, config_data,
                   alias_commands, zone_commands, switch_commands, output_file,
                   report_file>>

(***************************************************************************)
(* parse_zones_from_txt                                                    *)
(***************************************************************************)
\* [member.strip() for member in clean_line.split(';') if member.strip()]
ZoneMembers(clean_line) ==
    LET parts == SplitOn(clean_line, ";")
        kept == SelectSeq(parts, LAMBDA m : Strip(m) # "")
    IN  [k \in 1..Len(kept) |-> Strip(kept[k])]

\* AssignMembers keeping the zone an alias already has
RECURSIVE AssignMembers_KeepsFirst(_, _, _)
AssignMembers_KeepsFirst(map, members, zone) ==
    IF members = <<>> THEN map
    ELSE AssignMembers_KeepsFirst(
             IF Head(members) \in DOMAIN map THEN map
             ELSE DictSet(map, Head(members), zone),
             Tail(members), zone)

\* for member_alias in members: alias_to_zone_map[member_alias] = zone
RECURSIVE AssignMembers(_, _, _)
AssignMembers(map, members, zone) ==
    IF members = <<>> THEN map
    ELSE AssignMembers(DictSet(map, Head(members), zone), Tail(members), zone)

\* ZoneLoopBody without the test of in_defined_config
ZoneLoopBody_NoGate(name, inside, map, line) ==
    LET clean_line == Strip(line)
        same == [current_zone_name |-> name, in_defined_config |-> inside,
                 alias_to_zone_map |-> map]
    IN  IF StartsWith(clean_line, "Defined configuration:")
        THEN [same EXCEPT !.in_defined_config = TRUE]
        ELSE IF clean_line = ""
        THEN same
        ELSE IF StartsWith(clean_line, "zone:")
        THEN LET parts == Split1(clean_line, ":")
             IN  [same EXCEPT !.current_zone_name =
                      IF Len(parts) > 1 THEN Some(Strip(parts[2])) ELSE None]
        ELSE IF Truthy(name)
        THEN [same EXCEPT
                 !.alias_to_zone_map =
                     AssignMembers(map, ZoneMembers(clean_line), name[1]),
                 !.current_zone_name = None]
        ELSE same

\* ZoneLoopBody keeping current_zone_name after a members line
ZoneLoopBody_KeepsPending(name, inside, map, line) ==
    LET clean_line == Strip(line)
        same == [current_zone_name |-> name, in_defined_config |-> inside,
                 alias_to_zone_map |-> map]
    IN  IF StartsWith(clean_line, "Defined configuration:")
        THEN [same EXCEPT !.in_defined_config = TRUE]
        ELSE IF ~inside \/ clean_line = ""
        THEN same
        ELSE IF StartsWith(clean_line, "zone:")
        THEN LET parts == Split1(clean_line, ":")
             IN  [same EXCEPT !.current_zone_name =
                      IF Len(parts) > 1 THEN Some(Strip(parts[2])) ELSE None]
        ELSE IF Truthy(name)
        THEN [same EXCEPT
                 !.alias_to_zone_map =
                     AssignMembers(map, ZoneMembers(clean_line), name[1])]
        ELSE same

\* ZoneLoopBody leaving the section at the heading of the effective
\* configuration
ZoneLoopBody_SectionEnds(name, inside, map, line) ==
    LET clean_line == Strip(line)
        same == [current_zone_name |-> name, in_defined_config |-> inside,
                 alias_to_zone_map |-> map]
    IN  IF StartsWith(clean_line, "Defined configuration:")
        THEN [same EXCEPT !.in_defined_config = TRUE]
        ELSE IF StartsWith(clean_line, "Effective configuration:")
        THEN [same EXCEPT !.in_defined_config = FALSE]
        ELSE IF ~inside \/ clean_line = ""
        THEN same
        ELSE IF StartsWith(clean_line, "zone:")
        THEN LET parts == Split1(clean_line, ":")
             IN  [same EXCEPT !.current_zone_name =
                      IF Len(parts) > 1 THEN Some(Strip(parts[2])) ELSE None]
        ELSE IF Truthy(name)
        THEN [same EXCEPT
                 !.alias_to_zone_map =
                     AssignMembers(map, ZoneMembers(clean_line), name[1]),
                 !.current_zone_name = None]
        ELSE same

\* one iteration of the loop body
ZoneLoopBody(name, inside, map, line) ==
    LET clean_line == Strip(line)
        same == [current_zone_name |-> name, in_defined_config |-> inside,
                 alias_to_zone_map |-> map]
    IN  IF StartsWith(clean_line, "Defined configuration:")
        THEN [same EXCEPT !.in_defined_config = TRUE]
        ELSE IF ~inside \/ clean_line = ""
        THEN same
        ELSE IF StartsWith(clean_line, "zone:")
        THEN LET parts == Split1(clean_line, ":")
             IN  [same EXCEPT !.current_zone_name =
                      IF Len(parts) > 1 THEN Some(Strip(parts[2])) ELSE None]
        ELSE IF Truthy(name)
        THEN [same EXCEPT
                 !.alias_to_zone_map =
                     AssignMembers(map, ZoneMembers(clean_line), name[1]),
                 !.current_zone_name = None]
        ELSE same

ParseZonesLine ==
    /\ pc = "parse_zones"
    /\ cursor <= Len(file)
    /\ LET after == ZoneLoopBody(current_zone_name, in_defined_config,
                                 alias_to_zone_map, file[cursor])
       IN  /\ current_zone_name' = after.current_zone_name
           /\ in_defined_config' = after.in_defined_config
           /\ alias_to_zone_map' = after.alias_to_zone_map
    /\ cursor' = cursor + 1
    /\ UNCHANGED <<pc, file, last_alias_name, alias_map, existing_aliases,
                   existing_zones, in_switchshow_section, port_data, stopped_at,
                   config_data, alias_commands, zone_commands, switch_commands,
                   output_file, report_file,
                   stderr>>

\* end of file: return alias_to_zone_map to main, which calls
\* parse_switchshow_from_txt
ParseZonesReturn ==
    /\ pc = "parse_zones"
    /\ cursor > Len(file)
    /\ existing_zones' = alias_to_zone_map
    /\ pc' = "parse_switchshow"
    /\ cursor' = 1
    /\ in_switchshow_section' = FALSE
    /\ port_data' = <<>>
    /\ stopped_at' = 0
    /\ UNCHANGED <<file, last_alias_name, alias_map, current_zone_name,
                   in_defined_config, alias_to_zone_map, existing_aliases,
                   config_data, alias_commands, zone_commands, switch_commands,
                   output_file, report_file,
                   stderr>>

\* the mapping returned once the except clause has run: alias_to_zone_map
\* as it is
ZoneMapAfterException(map) == map

\* open or the read of line cursor raises: the except clause prints a warning
\* and alias_to_zone_map is returned to main
ParseZonesFails ==
    /\ pc = "parse_zones"
    /\ cursor <= Len(file) + 1
    /\ stderr' = Append(stderr, WarnZones)
    /\ existing_zones' = ZoneMapAfterException(alias_to_zone_map)
    /\ pc' = "parse_switchshow"
    /\ cursor' = 1
    /\ in_switchshow_section' = FALSE
    /\ port_data' = <<>>
    /\ stopped_at' = 0
    /\ UNCHANGED <<file, last_alias_name, alias_map, current_zone_name,
                   in_defined_config, alias_to_zone_map, existing_aliases,
                   config_data, alias_commands, zone_commands, switch_commands,
                   output_file, report_file>>

(***************************************************************************)
(* parse_switchshow_from_txt                                               *)
(***************************************************************************)
\* RowAccepted without the 'Online' test
RowAccepted_NoOnlineTest(line) ==
    /\ WwpnSearch(line) # None
    /\ Contains(line, "F-Port")
    /\ Len(SplitWs(line)) > 1
    /\ IsDigit(SplitWs(line)[1])

\* the row test of the loop body: a WWPN match, 'F-Port' and 'Online' in the
\* line, more than one column, and columns[0].isdigit()
RowAccepted(line) ==
    /\ WwpnSearch(line) # None
    /\ Contains(line, "F-Port")
    /\ Contains(line, "Online")
    /\ Len(SplitWs(line)) > 1
    /\ IsDigit(SplitWs(line)[1])

\* PortRecord with the WWPN as the default alias
PortRecord_DefaultIsWwpn(line, aliases, zones) ==
    LET wwpn == Lower(WwpnSearch(line)[1])
        port_index == SplitWs(line)[1]
        alias_name == DictGet(aliases, wwpn, wwpn)
        zone_name == DictGet(zones, alias_name, "")
    IN  [Port_Index |-> port_index, Alias |-> alias_name, WWPN |-> wwpn,
         Zone_Name |-> zone_name]

\* PortRecord with '' as the alias of a WWPN that has none
PortRecord_NoDefault(line, aliases, zones) ==
    LET wwpn == Lower(WwpnSearch(line)[1])
        port_index == SplitWs(line)[1]
        alias_name == DictGet(aliases, wwpn, "")
        zone_name == DictGet(zones, alias_name, "")
    IN  [Port_Index |-> port_index, Alias |-> alias_name, WWPN |-> wwpn,
         Zone_Name |-> zone_name]

\* the dict appended for an accepted row
PortRecord(line, aliases, zones) ==
    LET wwpn == Lower(WwpnSearch(line)[1])
        port_index == SplitWs(line)[1]
        alias_name == DictGet(aliases, wwpn, "Port_" \o port_index)
        zone_name == DictGet(zones, alias_name, "")
    IN  [Port_Index |-> port_index, Alias |-> alias_name, WWPN |-> wwpn,
         Zone_Name |-> zone_name]

\* port_data.insert(0, ...)
AppendRow_AtFront(data, row) == <<row>> \o data

\* port_data.append(...)
AppendRow(data, row) == Append(data, row)

\* SwitchshowLoopBody clearing the flag at 'admin>' without the "break"
SwitchshowLoopBody_NoBreak(inside, data, rawline, aliases, zones) ==
    LET line == Strip(rawline)
        same == [in_switchshow_section |-> inside, port_data |-> data,
                 stop |-> FALSE]
    IN  IF StartsWith(line, "Index Port Address")
        THEN [same EXCEPT !.in_switchshow_section = TRUE]
        ELSE IF ~inside
        THEN same
        ELSE IF Contains(line, "admin>")
        THEN [same EXCEPT !.in_switchshow_section = FALSE]
        ELSE IF RowAccepted(line)
        THEN [same EXCEPT
                 !.port_data = AppendRow(data, PortRecord(line, aliases, zones))]
        ELSE same

\* one iteration of the loop body; stop is TRUE when it leaves by "break"
SwitchshowLoopBody(inside, data, rawline, aliases, zones) ==
    LET line == Strip(rawline)
        same == [in_switchshow_section |-> inside, port_data |-> data,
                 stop |-> FALSE]
    IN  IF StartsWith(line, "Index Port Address")
        THEN [same EXCEPT !.in_switchshow_section = TRUE]
        ELSE IF ~inside
        THEN same
        ELSE IF Contains(line, "admin>")
        THEN [same EXCEPT !.in_switchshow_section = FALSE, !.stop = TRUE]
        ELSE IF RowAccepted(line)
        THEN [same EXCEPT
                 !.port_data = AppendRow(data, PortRecord(line, aliases, zones))]
        ELSE same

ParseSwitchshowLine ==
    /\ pc = "parse_switchshow"
    /\ stopped_at = 0
    /\ cursor <= Len(file)
    /\ LET after == SwitchshowLoopBody(in_switchshow_section, port_data,
                                       file[cursor], existing_aliases,
                                       existing_zones)
       IN  /\ in_switchshow_section' = after.in_switchshow_section
           /\ port_data' = after.port_data
           /\ stopped_at' = IF after.stop THEN cursor ELSE 0
    /\ cursor' = cursor + 1
    /\ UNCHANGED <<pc, file, last_alias_name, alias_map, current_zone_name,
                   in_defined_config, alias_to_zone_map, existing_aliases,
                   existing_zones, config_data, alias_commands, zone_commands,
                   switch_commands, output_file, report_file,
                   stderr>>

\* pd.DataFrame(port_data) if port_data else None
\* SwitchshowResult as pd.DataFrame(port_data), empty or not
SwitchshowResult_EmptyFrame(data) == Some(data)

SwitchshowResult(data) == IF data # <<>> THEN Some(data) ELSE None

\* end of file or break: return to main
ParseSwitchshowReturn ==
    /\ pc = "parse_switchshow"
    /\ stopped_at # 0 \/ cursor > Len(file)
    /\ config_data' = SwitchshowResult(port_data)
    /\ pc' = "have_config"
    /\ UNCHANGED <<file, cursor, last_alias_name, alias_map, current_zone_name,
                   in_defined_config, alias_to_zone_map, existing_aliases,
                   existing_zones, in_switchshow_section, port_data, stopped_at,
                   alias_commands, zone_commands, switch_commands, output_file,
                   report_file,
                   stderr>>

\* the value returned by the except clauses, were it the rows read so far
SwitchshowResultAfterException_RowsSoFar(data) == SwitchshowResult(data)

\* the value returned by the except clauses: None
SwitchshowResultAfterException(data) == None

\* open raises (FileNotFoundError or another exception, before the first
\* line) or the read of line cursor raises: an error is printed and None is
\* returned to main
ParseSwitchshowFails ==
    /\ pc = "parse_switchshow"
    /\ stopped_at = 0
    /\ cursor <= Len(file) + 1
    /\ \E message \in IF cursor = 1 THEN {ErrFileNotFound, ErrReadTxt}
                                    ELSE {ErrReadTxt} :
          stderr' = Append(stderr, message)
    /\ config_data' = SwitchshowResultAfterException(port_data)
    /\ pc' = "have_config"
    /\ UNCHANGED <<file, cursor, last_alias_name, alias_map, current_zone_name,
                   in_defined_config, alias_to_zone_map, existing_aliases,
                   existing_zones, in_switchshow_section, port_data, stopped_at,
                   alias_commands, zone_commands, switch_commands, output_file,
                   report_file>>

(***************************************************************************)
(* generate_brocade_alias_commands                                         *)
(***************************************************************************)
Quote == "\""

AliasCommand(alias_name, wwpn) ==
    "alicreate " \o Quote \o alias_name \o Quote \o ", " \o Quote \o wwpn \o Quote

\* AliasCommandsFrom leaving the loop at the first incomplete row
RECURSIVE AliasCommandsFrom_StopsAtIncomplete(_, _)
AliasCommandsFrom_StopsAtIncomplete(commands, df) ==
    IF df = <<>> THEN commands
    ELSE LET alias_name == Strip(Head(df).Alias)
             wwpn == Strip(Head(df).WWPN)
         IN  IF alias_name # "" /\ wwpn # ""
             THEN AliasCommandsFrom_StopsAtIncomplete(
                      Append(commands, AliasCommand(alias_name, wwpn)), Tail(df))
             ELSE commands

\* the command list after the rows of df, starting from commands
RECURSIVE AliasCommandsFrom(_, _)
AliasCommandsFrom(commands, df) ==
    IF df = <<>> THEN commands
    ELSE LET alias_name == Strip(Head(df).Alias)
             wwpn == Strip(Head(df).WWPN)
         IN  IF alias_name # "" /\ wwpn # ""
             THEN AliasCommandsFrom(Append(commands, AliasCommand(alias_name, wwpn)),
                                    Tail(df))
             ELSE AliasCommandsFrom(commands, Tail(df))

generate_brocade_alias_commands(df) == AliasCommandsFrom(<<>>, df)

\* the warnings generate_brocade_alias_commands prints for the rows of df,
\* the first of which has the given index
RECURSIVE AliasWarningsFrom(_, _)
AliasWarningsFrom(df, index) ==
    IF df = <<>> THEN <<>>
    ELSE IF Strip(Head(df).Alias) # "" /\ Strip(Head(df).WWPN) # ""
    THEN AliasWarningsFrom(Tail(df), index + 1)
    ELSE <<WarnIncompleteRow(index + 2)>> \o AliasWarningsFrom(Tail(df), index + 1)

(***************************************************************************)
(* generate_brocade_zone_commands                                          *)
(***************************************************************************)
\* the characters of names, in code-point order (tab, space, punctuation,
\* digits, upper case, underscore, lower case)
CodePoints ==
    "\t !#$%&()*+,-./0123456789:;<=>?@ABCDEFGHIJKLMNOPQRSTUVWXYZ_abcdefghijklmnopqrstuvwxyz"

Ord(c) == Min(Occurrences(CodePoints, c))

\* a < b for Python str
RECURSIVE StrLess(_, _)
StrLess(a, b) ==
    IF b = "" THEN FALSE
    ELSE IF a = "" THEN TRUE
    ELSE IF Head(a) = Head(b) THEN StrLess(Tail(a), Tail(b))
    ELSE Ord(Head(a)) < Ord(Head(b))

\* the group keys in the order DataFrame.groupby (sort=True) yields them
RECURSIVE GroupKeys(_)
GroupKeys(keys) ==
    IF keys = {} THEN <<>>
    ELSE LET least == CHOOSE k \in keys : \A o \in keys \ {k} : StrLess(k, o)
         IN  <<least>> \o GroupKeys(keys \ {least})

ZoneCommand(zone_name, members) ==
    "zonecreate " \o Quote \o zone_name \o Quote \o ", " \o Quote
        \o Join(members, ";") \o Quote

\* GroupAliases with the members in reverse order
GroupAliases_Reversed(zoned_df, zone_name) ==
    LET group == SelectSeq(zoned_df, LAMBDA r : r.Zone_Name = zone_name)
    IN  [k \in 1..Len(group) |-> group[Len(group) + 1 - k].Alias]

\* group['Alias'].tolist()
GroupAliases(zoned_df, zone_name) ==
    LET group == SelectSeq(zoned_df, LAMBDA r : r.Zone_Name = zone_name)
    IN  [k \in 1..Len(group) |-> group[k].Alias]

\* generate_brocade_zone_commands without the filter on 'Zone Name'
generate_brocade_zone_commands_KeepsUnzoned(df) ==
    LET keys == GroupKeys({df[k].Zone_Name : k \in 1..Len(df)})
    IN  [k \in 1..Len(keys) |-> ZoneCommand(keys[k], GroupAliases(df, keys[k]))]

generate_brocade_zone_commands(df) ==
    LET zoned_df == SelectSeq(df, LAMBDA r : r.Zone_Name # "")
        keys == GroupKeys({zoned_df[k].Zone_Name : k \in 1..Len(zoned_df)})
    IN  [k \in 1..Len(keys) |-> ZoneCommand(keys[k], GroupAliases(zoned_df, keys[k]))]

(***************************************************************************)
(* Bounded inputs                                                          *)
(***************************************************************************)
MaxLines == 4       \* lines of a source file given to the whole of main
MaxAliasLines == 4  \* lines of a file given to parse_aliases_from_txt alone
MaxPortLines == 3   \* lines of a file given to parse_switchshow_from_txt alone
MaxRows == 3        \* rows of a sheet
MaxZoneLines == 4   \* lines of a file given to parse_zones_from_txt alone
MaxFailingLines == 2 \* lines of a source file whose reads may fail

SeqsUpTo(S, n) == UNION {[1..k -> S] : k \in 0..n}

W1 == "10:00:00:00:c9:11:22:33"
W1Upper == "10:00:00:00:C9:11:22:33"
W2 == "21:00:00:24:ff:4a:5b:6c"

AliasHost1 == " alias: Host1"
AliasHost2 == " alias: Host2"
AliasEmpty == " alias:"
WwpnLine1 == "    " \o W1
WwpnLine2 == "    " \o W2
WwpnLine1Upper == "    " \o W1Upper
PortMember == "    1,5"
DefinedCfg == "Defined configuration:"
ZoneZone1 == " zone: Zone1"
MemberLine == "    Host1; Port_3"
Header == "Index Port Address Media Speed State Proto"
Prompt == "sw1:admin> switchshow"
Row3 == "  3  3  010300  id  N8  Online  FC  F-Port  " \o W1
Row1 == "  1  1  010100  id  N8  Online  FC  F-Port  " \o W2
RowEPort == "  5  5  010500  id  N8  Online  FC  E-Port  " \o W1
RowNotOnline == "  6  6  010600  id  N8  In_Sync  FC  F-Port  " \o W1
RowNoIndex == "  slot2/7  010700  id  N8  Online  FC  F-Port  " \o W1
RowNoWwpn == "  8  8  010800  id  N8  Online  FC  F-Port"

\* the scenario of the end-to-end test
EndToEndFile ==
    <<"alias: Host1", W1, DefinedCfg, "zone: Zone1", "Host1",
      "Index Port Address", "3 " \o W1 \o " F-Port Online">>

\* the same file with the address in upper case
UpperCaseFile ==
    <<"alias: Host1", W1Upper, DefinedCfg, "zone: Zone1", "Host1",
      "Index Port Address", "3 " \o W1Upper \o " F-Port Online">>

\* a capture of two commands, each after its prompt
CaptureFile ==
    <<"sw1:admin> zoneshow", DefinedCfg, ZoneZone1, MemberLine, AliasHost1,
      WwpnLine1, Prompt, Header, Row1, Row3, "sw1:admin> ", Row1>>

\* main, source_mode = "txt"
SourceLines ==
    {AliasHost1, AliasEmpty, WwpnLine1, DefinedCfg, ZoneZone1, MemberLine,
     Header, Row3}

SourceFiles ==
    SeqsUpTo(SourceLines, MaxLines)
        \cup {EndToEndFile, UpperCaseFile, CaptureFile}

\* main, source_mode = "txt", with reads that may fail
FailingFiles ==
    SeqsUpTo(SourceLines, MaxFailingLines) \cup {EndToEndFile, CaptureFile}

\* parse_aliases_from_txt alone
AliasLines ==
    {AliasHost1, AliasHost2, AliasEmpty, WwpnLine1, WwpnLine2, PortMember}

\* W1 bound to Host1, then to Host2, with W2 bound before
ReboundFile ==
    <<AliasHost1, WwpnLine2, AliasHost1, WwpnLine1, AliasHost2, WwpnLine1>>

AliasFiles == SeqsUpTo(AliasLines, MaxAliasLines) \cup {ReboundFile}

\* parse_zones_from_txt alone
EffectiveCfg == "Effective configuration:"
ZoneZone2 == " zone: Zone2"
ZoneEmpty == " zone:"
MemberOther == "    Host2"
Blank == ""

ZoneLines ==
    {DefinedCfg, EffectiveCfg, ZoneZone1, ZoneZone2, ZoneEmpty, MemberLine, Blank}

\* Host1 and Port_3 listed under Zone1, then under Zone2
RezonedFile == <<DefinedCfg, ZoneZone1, MemberLine, ZoneZone2, MemberLine>>
\* a zone and its members before the marker, a blank line between a zone
\* and its members after it
GatedFile == <<ZoneZone2, MemberOther, DefinedCfg, ZoneZone1, Blank, MemberLine>>
\* the marker a second time, between a zone and its members
MarkerAfterZoneFile ==
    <<DefinedCfg, ZoneZone1, DefinedCfg, MemberLine, MemberOther>>

ZoneFiles ==
    SeqsUpTo(ZoneLines, MaxZoneLines)
        \cup {RezonedFile, GatedFile, MarkerAfterZoneFile}

\* parse_switchshow_from_txt alone, with the two mappings it is passed
PortLines ==
    {Header, Prompt, Row3, Row1, RowEPort, RowNotOnline, RowNoIndex, RowNoWwpn}

PortFiles ==
    SeqsUpTo(PortLines, MaxPortLines)
        \cup {<<Header, Row3, Prompt, Row1>>,
              <<Header, Row3, Prompt, Header, Row1>>,
              <<Row1, Header, Row3, Row1, Row3>>}

AliasMaps == {EmptyDict, DictSet(EmptyDict, W1, "Host1")}

ZoneMaps ==
    {EmptyDict,
     DictSet(EmptyDict, "Host1", "Zone1"),
     DictSet(DictSet(EmptyDict, "Host1", "Zone1"), "Port_1", "Zone2")}

\* main, source_mode = "excel": the sheets read_switch_config_from_excel returns
SheetRows ==
    {[Port_Index |-> "", Alias |-> a, WWPN |-> W1, Zone_Name |-> z] :
        a \in {"A1", "A2", ""}, z \in {"", "ZoneX", "ZoneA"}}
    \cup {[Port_Index |-> "", Alias |-> "A1", WWPN |-> "", Zone_Name |-> z] :
        z \in {"", "ZoneX", "ZoneA"}}
    \cup {[Port_Index |-> "", Alias |-> " A3 ", WWPN |-> " " \o W2 \o "  ",
            Zone_Name |-> "ZoneA"],
          [Port_Index |-> "", Alias |-> "  ", WWPN |-> W1, Zone_Name |-> ""]}

ExcelSheets == SeqsUpTo(SheetRows, MaxRows)

(***************************************************************************)
(* main                                                                    *)
(***************************************************************************)
\* read_switch_config_from_excel: the rows of the sheet, columns renamed,
\* 'Port Index' set to ''; None when the sheet cannot be read
ReadExcel ==
    /\ pc = "read_excel"
    /\ \/ \E rows \in ExcelSheets :
             /\ config_data' = Some(rows)
             /\ stderr' = stderr
       \/ \E message \in {ErrMissingColumns, ErrFileNotFound, ErrReadExcel} :
             /\ config_data' = None
             /\ stderr' = Append(stderr, message)
    /\ pc' = "have_config"
    /\ UNCHANGED <<file, cursor, last_alias_name, alias_map, current_zone_name,
                   in_defined_config, alias_to_zone_map, existing_aliases,
                   existing_zones, in_switchshow_section, port_data, stopped_at,
                   alias_commands, zone_commands, switch_commands, output_file,
                   report_file>>

\* config_data is None: main ends
NoConfigData ==
    /\ pc = "have_config"
    /\ config_data = None
    /\ pc' = "done"
    /\ UNCHANGED <<file, cursor, last_alias_name, alias_map, current_zone_name,
                   in_defined_config, alias_to_zone_map, existing_aliases,
                   existing_zones, in_switchshow_section, port_data, stopped_at,
                   config_data, alias_commands, zone_commands, switch_commands,
                   output_file, report_file,
                   stderr>>

GenerateAliasCommands ==
    /\ pc = "have_config"
    /\ config_data # None
    /\ alias_commands' = generate_brocade_alias_commands(config_data[1])
    /\ stderr' = stderr \o AliasWarningsFrom(config_data[1], 0)
    /\ pc' = "zone_commands"
    /\ UNCHANGED <<file, cursor, last_alias_name, alias_map, current_zone_name,
                   in_defined_config, alias_to_zone_map, existing_aliases,
                   existing_zones, in_switchshow_section, port_data, stopped_at,
                   config_data, zone_commands, switch_commands, output_file,
                   report_file>>

\* zone commands, then switch_commands = alias_commands + zone_commands
GenerateZoneCommands ==
    /\ pc = "zone_commands"
    /\ zone_commands' = generate_brocade_zone_commands(config_data[1])
    /\ switch_commands' = alias_commands \o zone_commands'
    /\ pc' = "write"
    /\ UNCHANGED <<file, cursor, last_alias_name, alias_map, current_zone_name,
                   in_defined_config, alias_to_zone_map, existing_aliases,
                   existing_zones, in_switchshow_section, port_data, stopped_at,
                   config_data, alias_commands, output_file, report_file,
                   stderr>>

\* if switch_commands: the commands are written to output_file unless open or
\* write raises IOError; else only a message is printed
WriteCommands ==
    /\ pc = "write"
    /\ IF switch_commands # <<>>
       THEN \/ output_file' = Some(switch_commands) /\ stderr' = stderr
            \/ output_file' = output_file /\ stderr' = Append(stderr, ErrWrite)
       ELSE output_file' = output_file /\ stderr' = stderr
    /\ pc' = "export"
    /\ UNCHANGED <<file, cursor, last_alias_name, alias_map, current_zone_name,
                   in_defined_config, alias_to_zone_map, existing_aliases,
                   existing_zones, in_switchshow_section, port_data, stopped_at,
                   config_data, alias_commands, zone_commands, switch_commands,
                   report_file>>

\* export_to_excel: the rows are exported unless to_excel raises
ExportReport ==
    /\ pc = "export"
    /\ \/ report_file' = Some(config_data[1]) /\ stderr' = stderr
       \/ report_file' = report_file /\ stderr' = Append(stderr, ErrExport)
    /\ pc' = "done"
    /\ UNCHANGED <<file, cursor, last_alias_name, alias_map, current_zone_name,
                   in_defined_config, alias_to_zone_map, existing_aliases,
                   existing_zones, in_switchshow_section, port_data, stopped_at,
                   config_data, alias_commands, zone_commands, switch_commands,
                   output_file>>

(***************************************************************************)
(* Specifications                                                          *)
(***************************************************************************)
\* every variable before main has assigned it
Unassigned ==
    /\ cursor = 1
    /\ last_alias_name = None
    /\ alias_map = EmptyDict
    /\ current_zone_name = None
    /\ in_defined_config = FALSE
    /\ alias_to_zone_map = EmptyDict
    /\ existing_aliases = EmptyDict
    /\ existing_zones = EmptyDict
    /\ in_switchshow_section = FALSE
    /\ port_data = <<>>
    /\ stopped_at = 0
    /\ config_data = None
    /\ alias_commands = <<>>
    /\ zone_commands = <<>>
    /\ switch_commands = <<>>
    /\ output_file = None
    /\ report_file = None
    /\ stderr = <<>>

\* main with source_mode = "txt" on a source file of the bounded set
Init ==
    /\ pc = "parse_aliases"
    /\ file \in SourceFiles
    /\ Unassigned

Next ==
    \/ ParseAliasesLine
    \/ ParseAliasesReturn
    \/ ParseZonesLine
    \/ ParseZonesReturn
    \/ ParseSwitchshowLine
    \/ ParseSwitchshowReturn
    \/ NoConfigData
    \/ GenerateAliasCommands
    \/ GenerateZoneCommands
    \/ WriteCommands
    \/ ExportReport

Spec == Init /\ [][Next]_vars

\* main with source_mode = "txt" on a source file that may fail to open or
\* to be read, in any of the three passes
InitIO ==
    /\ pc = "parse_aliases"
    /\ file \in FailingFiles
    /\ Unassigned

NextIO ==
    \/ ParseAliasesLine
    \/ ParseAliasesReturn
    \/ ParseAliasesFails
    \/ ParseZonesLine
    \/ ParseZonesReturn
    \/ ParseZonesFails
    \/ ParseSwitchshowLine
    \/ ParseSwitchshowReturn
    \/ ParseSwitchshowFails
    \/ NoConfigData
    \/ GenerateAliasCommands
    \/ GenerateZoneCommands
    \/ WriteCommands
    \/ ExportReport

SpecIO == InitIO /\ [][NextIO]_vars

\* parse_aliases_from_txt on a file of the bounded set
InitAliases ==
    /\ pc = "parse_aliases"
    /\ file \in AliasFiles
    /\ Unassigned

NextAliases ==
    \/ ParseAliasesLine
    \/ ParseAliasesReturn

SpecAliases == InitAliases /\ [][NextAliases]_vars

\* parse_zones_from_txt on a file of the bounded set
InitZones ==
    /\ pc = "parse_zones"
    /\ file \in ZoneFiles
    /\ Unassigned

NextZones ==
    \/ ParseZonesLine
    \/ ParseZonesReturn

SpecZones == InitZones /\ [][NextZones]_vars

\* parse_switchshow_from_txt on a file and two mappings of the bounded sets
InitSwitchshow ==
    /\ pc = "parse_switchshow"
    /\ file \in PortFiles
    /\ cursor = 1
    /\ last_alias_name = None
    /\ alias_map = EmptyDict
    /\ current_zone_name = None
    /\ in_defined_config = FALSE
    /\ alias_to_zone_map = EmptyDict
    /\ existing_aliases \in AliasMaps
    /\ existing_zones \in ZoneMaps
    /\ in_switchshow_section = FALSE
    /\ port_data = <<>>
    /\ stopped_at = 0
    /\ config_data = None
    /\ alias_commands = <<>>
    /\ zone_commands = <<>>
    /\ switch_commands = <<>>
    /\ output_file = None
    /\ report_file = None
    /\ stderr = <<>>

NextSwitchshow ==
    \/ ParseSwitchshowLine
    \/ ParseSwitchshowReturn

SpecSwitchshow == InitSwitchshow /\ [][NextSwitchshow]_vars

\* main with source_mode = "excel", up to the command list
InitExcel ==
    /\ pc = "read_excel"
    /\ file = <<>>
    /\ Unassigned

NextExcel ==
    \/ ReadExcel
    \/ NoConfigData
    \/ GenerateAliasCommands
    \/ GenerateZoneCommands

SpecExcel == InitExcel /\ [][NextExcel]_vars

(***************************************************************************)
(* Properties                                                              *)
(***************************************************************************)
IsAliasLine(l) == StartsWith(Strip(l), "alias:")
IsHeaderLine(l) == StartsWith(Strip(l), "Index Port Address")
IsPromptLine(l) == Contains(l, "admin>")

\* main is past the call of parse_switchshow_from_txt
PortsParsed == pc \in {"have_config", "zone_commands", "write", "export", "done"}
\* main has built switch_commands
CommandsBuilt == pc \in {"write", "export", "done"}

\* C1: the end-to-end scenario (alias Host1 with its WWPN, zone Zone1 with
\* member Host1 in the defined configuration, one online F-Port row of index
\* 3 with that WWPN) gives the single record {3, Host1, WWPN, Zone1} and the
\* commands alicreate(Host1, WWPN), zonecreate(Zone1, [Host1]), in this order.
C1_EndToEnd ==
    /\ (file = EndToEndFile /\ PortsParsed) =>
          config_data = Some(<<[Port_Index |-> "3", Alias |-> "Host1",
                                WWPN |-> "10:00:00:00:c9:11:22:33",
                                Zone_Name |-> "Zone1"]>>)
    /\ (file = EndToEndFile /\ CommandsBuilt) =>
          switch_commands =
              <<"alicreate \"Host1\", \"10:00:00:00:c9:11:22:33\"",
                "zonecreate \"Zone1\", \"Host1\"">>

C1_Witness ==
    /\ file = EndToEndFile
    /\ pc = "done"
    /\ output_file = Some(switch_commands)
    /\ Len(switch_commands) = 2

\* C2: in the alias parser a pending name lives for one line only: while a
\* name is pending the line just read is its alias: line, and every entry of
\* the mapping was bound by the line right after the alias: line of its name.
C2_SingleShotLookahead ==
    pc = "parse_aliases" =>
        /\ Truthy(last_alias_name) =>
              cursor > 1 /\ IsAliasLine(file[cursor - 1])
        /\ \A w \in DOMAIN alias_map :
              \E j \in 1..(cursor - 2) :
                  /\ IsAliasLine(file[j])
                  /\ Strip(Split1(Strip(file[j]), ":")[2]) = alias_map[w]
                  /\ ~IsAliasLine(file[j + 1])
                  /\ WwpnSearch(Strip(file[j + 1])) = Some(w)

\* the address a line carries when hex digits of either case are accepted,
\* in lower case; None if it carries none
WwpnAnyCase(l) == WwpnSearch(Lower(l))

\* C3: an address written with upper-case hex digits is recognized by both
\* parsers and recorded in lower case: the line after an alias: line with a
\* name gives a mapping entry for it, and an online F-Port row that is read
\* as a row of the port table gives a record with it.
C3_CaseInsensitiveWwpn ==
    /\ pc \notin {"parse_aliases"} =>
          \A j \in 1..(Len(file) - 1) :
              ( /\ IsAliasLine(file[j])
                /\ Strip(Split1(Strip(file[j]), ":")[2]) # ""
                /\ ~IsAliasLine(file[j + 1])
                /\ WwpnAnyCase(file[j + 1]) # None )
              => WwpnAnyCase(file[j + 1])[1] \in DOMAIN existing_aliases
    /\ PortsParsed =>
          \A j \in 2..Len(file) :
              ( /\ IsHeaderLine(file[j - 1])
                /\ WwpnAnyCase(file[j]) # None
                /\ Contains(file[j], "F-Port")
                /\ Contains(file[j], "Online")
                /\ ~IsPromptLine(file[j])
                /\ ~IsHeaderLine(file[j])
                /\ IsDigit(SplitWs(file[j])[1]) )
              => \E k \in 1..Len(port_data) :
                    /\ port_data[k].WWPN = WwpnAnyCase(file[j])[1]
                    /\ port_data[k].Port_Index = SplitWs(file[j])[1]

\* the port loop is about to read line cursor
ReadsPortLine ==
    pc = "parse_switchshow" /\ stopped_at = 0 /\ cursor <= Len(file)

\* C4 as claimed: no line after the first line of the input that contains
\* admin> gives a record.
C4_StopsAtFirstPromptOfInput ==
    [][(ReadsPortLine /\ port_data' # port_data) =>
          ~\E j \in 1..(cursor - 1) : IsPromptLine(file[j])]_vars

\* line j ends the port table: it contains admin>, is no header line and
\* lies after a header line
EndsPortTable(j) ==
    /\ IsPromptLine(file[j])
    /\ ~IsHeaderLine(file[j])
    /\ \E h \in 1..(j - 1) : IsHeaderLine(file[h])

\* C4, amended: the scan stops at the first line containing admin> that lies
\* after the Index Port Address header: from there on no line is read and no
\* record is added, whatever follows, a further header included.
C4_StopsAtFirstPromptAfterHeader ==
    [][(pc = "parse_switchshow"
            /\ \E j \in 1..(cursor - 1) : EndsPortTable(j)) =>
          /\ port_data' = port_data
          /\ cursor' = cursor
          /\ in_switchshow_section' = in_switchshow_section]_vars

C4_Witness ==
    /\ pc = "have_config"
    /\ stopped_at # 0
    /\ Len(port_data) = 1
    /\ \E k \in (stopped_at + 1)..Len(file) :
          /\ RowAccepted(Strip(file[k]))
          /\ \E h \in (stopped_at + 1)..(k - 1) : IsHeaderLine(file[h])

\* the four conditions of a port row
IsPortRow(l) ==
    /\ WwpnSearch(l) # None
    /\ Contains(l, "F-Port")
    /\ Contains(l, "Online")
    /\ SplitWs(l) # <<>>
    /\ IsDigit(SplitWs(l)[1])

\* C5: a line of the port table gives a record only if it carries a WWPN,
\* F-Port, Online and a leading token of decimal digits; a line of the table
\* that fails one of them gives none and leaves the scan as it was, on to the
\* next line.
C5_RowFilter ==
    [][ReadsPortLine =>
          /\ port_data' # port_data =>
                IsPortRow(file[cursor]) /\ Len(port_data') = Len(port_data) + 1
          /\ ( /\ in_switchshow_section
               /\ ~IsHeaderLine(file[cursor])
               /\ ~IsPromptLine(file[cursor])
               /\ ~IsPortRow(file[cursor]) ) =>
                /\ port_data' = port_data
                /\ in_switchshow_section'
                /\ stopped_at' = 0
                /\ pc' = pc
                /\ cursor' = cursor + 1]_vars

C5_Witness ==
    /\ pc = "have_config"
    /\ \E h, j, k \in 1..Len(file) :
          /\ h < j /\ j < k
          /\ IsHeaderLine(file[h])
          /\ file[j] \in {RowEPort, RowNotOnline, RowNoIndex, RowNoWwpn}
          /\ IsPortRow(file[k])
    /\ Len(port_data) = 1

\* C6 as claimed: a record whose WWPN is no key of the alias mapping has the
\* alias Port_<index> and an empty zone name, whatever the zone mapping.
C6_FallbackAliasEmptyZone ==
    \A k \in 1..Len(port_data) :
        port_data[k].WWPN \notin DOMAIN existing_aliases =>
            /\ port_data[k].Alias = "Port_" \o port_data[k].Port_Index
            /\ port_data[k].Zone_Name = ""

\* C6, amended: such a record has the alias Port_<index>, and its zone name
\* is empty unless Port_<index> is itself a key of the zone mapping, and then
\* the zone mapped to it.
C6_FallbackAliasZoneOfFallback ==
    \A k \in 1..Len(port_data) :
        port_data[k].WWPN \notin DOMAIN existing_aliases =>
            /\ port_data[k].Alias = "Port_" \o port_data[k].Port_Index
            /\ "Port_" \o port_data[k].Port_Index \notin DOMAIN existing_zones =>
                  port_data[k].Zone_Name = ""
            /\ "Port_" \o port_data[k].Port_Index \in DOMAIN existing_zones =>
                  port_data[k].Zone_Name =
                      existing_zones["Port_" \o port_data[k].Port_Index]

C6_Witness ==
    /\ pc = "have_config"
    /\ \E k \in 1..Len(port_data) :
          /\ port_data[k].WWPN \notin DOMAIN existing_aliases
          /\ port_data[k].Alias = "Port_1"
          /\ port_data[k].Zone_Name = "Zone2"
    /\ \E k \in 1..Len(port_data) :
          /\ port_data[k].WWPN \notin DOMAIN existing_aliases
          /\ port_data[k].Zone_Name = ""

LowerHex == {"0", "1", "2", "3", "4", "5", "6", "7", "8", "9",
             "a", "b", "c", "d", "e", "f"}

\* 8 groups of 2 lower-case hex digits, separated by colons
IsCanonicalWwpn(w) ==
    LET groups == SplitOn(w, ":")
    IN  /\ Len(groups) = 8
        /\ \A g \in 1..8 :
              /\ Len(groups[g]) = 2
              /\ Char(groups[g], 1) \in LowerHex
              /\ Char(groups[g], 2) \in LowerHex

\* C7: in the text pipeline, with the mappings the alias and zone parsers
\* made from the same file, every record has a non-empty alias, a canonical
\* WWPN and a port index of decimal digits only.
C7_PortRecordInvariant ==
    \A k \in 1..Len(port_data) :
        /\ port_data[k].Alias # ""
        /\ IsCanonicalWwpn(port_data[k].WWPN)
        /\ IsDigit(port_data[k].Port_Index)

C7_Witness ==
    /\ pc = "done"
    /\ existing_aliases # EmptyDict
    /\ existing_zones # EmptyDict
    /\ \E k \in 1..Len(port_data) : port_data[k].Alias = "Host1"
    /\ \E k \in 1..Len(port_data) : port_data[k].Alias = "Port_1"

\* the elements of a set of numbers, ascending
RECURSIVE Ascending(_)
Ascending(S) == IF S = {} THEN <<>> ELSE <<Min(S)>> \o Ascending(S \ {Min(S)})

\* the lines of the port table: after the first header line, before the
\* line that ends the table
PortTableLines ==
    LET headers == {h \in 1..Len(file) : IsHeaderLine(file[h])}
        ends == {j \in 1..Len(file) : EndsPortTable(j)}
        last == IF ends = {} THEN Len(file) ELSE Min(ends) - 1
    IN  IF headers = {} THEN {} ELSE (Min(headers) + 1)..last

\* C8: the records are the port rows of the table, one for each and in file
\* order: rows before the header give none, rows with equal or descending
\* indices or equal WWPNs are all kept where they stand.
C8_RecordsAreRowsInFileOrder ==
    pc = "have_config" =>
        LET rows == Ascending({j \in PortTableLines : IsPortRow(file[j])})
        IN  /\ Len(port_data) = Len(rows)
            /\ \A k \in 1..Len(rows) :
                  /\ port_data[k].Port_Index = SplitWs(file[rows[k]])[1]
                  /\ port_data[k].WWPN = WwpnSearch(file[rows[k]])[1]

C8_Witness ==
    /\ pc = "have_config"
    /\ file = <<Row1, Header, Row3, Row1, Row3>>
    /\ Len(port_data) = 3
    /\ port_data[1].Port_Index = "3"
    /\ port_data[2].Port_Index = "1"
    /\ port_data[3] = port_data[1]

\* the aliases of the rows of df that have zone name z, in row order
RECURSIVE AliasesOfZone(_, _)
AliasesOfZone(df, z) ==
    IF df = <<>> THEN <<>>
    ELSE IF Head(df).Zone_Name = z
    THEN <<Head(df).Alias>> \o AliasesOfZone(Tail(df), z)
    ELSE AliasesOfZone(Tail(df), z)

\* the distinct non-empty zone names of df, in the order they are first seen
RECURSIVE FirstSeenZones(_, _)
FirstSeenZones(df, seen) ==
    IF df = <<>> THEN <<>>
    ELSE IF Head(df).Zone_Name = "" \/ Head(df).Zone_Name \in seen
    THEN FirstSeenZones(Tail(df), seen)
    ELSE <<Head(df).Zone_Name>>
             \o FirstSeenZones(Tail(df), seen \cup {Head(df).Zone_Name})

ZoneNames(df) == {df[k].Zone_Name : k \in 1..Len(df)} \ {""}

\* C9 as claimed: the zonecreate commands stand in the order their zone names
\* are first seen in the records, the members of each in record order.
C9_ZonesInFirstSeenOrder ==
    pc = "write" =>
        LET df == config_data[1]
            zones == FirstSeenZones(df, {})
        IN  zone_commands =
                [k \in 1..Len(zones) |->
                    ZoneCommand(zones[k], AliasesOfZone(df, zones[k]))]

\* C9, amended: the zonecreate commands stand in ascending order of their
\* zone names (compared as strings, by code point), the members of each in
\* record order.
C9_ZonesInNameOrder ==
    pc = "write" =>
        LET df == config_data[1]
        IN  /\ Len(zone_commands) = Cardinality(ZoneNames(df))
            /\ \A z \in ZoneNames(df) :
                  zone_commands[1 + Cardinality({y \in ZoneNames(df) : StrLess(y, z)})]
                      = ZoneCommand(z, AliasesOfZone(df, z))

C9_Witness ==
    /\ pc = "write"
    /\ Len(config_data[1]) = 3
    /\ FirstSeenZones(config_data[1], {}) = <<"ZoneX", "ZoneA">>
    /\ zone_commands = <<"zonecreate \"ZoneA\", \"A1\"",
                         "zonecreate \"ZoneX\", \"A2;A1\"">>

\* C10: one zonecreate command for each distinct non-empty zone name, listing
\* the aliases of the records with that zone name and no other; records with
\* no zone name are in no command, and without any zone name there is no
\* command.
C10_OneCommandPerZone ==
    pc = "write" =>
        LET df == config_data[1]
        IN  /\ Len(zone_commands) = Cardinality(ZoneNames(df))
            /\ \A z \in ZoneNames(df) :
                  Cardinality({k \in 1..Len(zone_commands) :
                      zone_commands[k] = ZoneCommand(z, AliasesOfZone(df, z))}) = 1
            /\ ZoneNames(df) = {} => zone_commands = <<>>

C10_Witness ==
    /\ pc = "write"
    /\ \E k \in 1..Len(config_data[1]) :
          config_data[1][k].Zone_Name = "" /\ config_data[1][k].Alias = "A2"
    /\ zone_commands = <<"zonecreate \"ZoneX\", \"A1;A1\"">>

(***************************************************************************)
(* Failures of open and read                                               *)
(***************************************************************************)
\* parse_switchshow_from_txt returned through one of its except clauses
PortParserFailed ==
    \E i \in 1..Len(stderr) : stderr[i] \in {ErrFileNotFound, ErrReadTxt}

\* C11 as claimed: the value parse_switchshow_from_txt returns after a failure
\* of open or read is never the value it returns for a readable file without
\* a port row.
C11_FailureDistinctFromNoData ==
    (PortsParsed /\ PortParserFailed) => config_data # SwitchshowResult(<<>>)

\* C11, amended: a failure of open or read and a readable file without a port
\* row give the same value, None, whatever rows were read before the failure;
\* any other run gives the rows read.
C11_FailureAndNoDataBothNone ==
    PortsParsed =>
        /\ (config_data = None) <=> (PortParserFailed \/ port_data = <<>>)
        /\ PortParserFailed => config_data = SwitchshowResult(<<>>)
        /\ (~PortParserFailed /\ port_data # <<>>) => config_data = Some(port_data)

\* a read fails after a row was accepted: the rows are dropped
C11_Witness ==
    /\ pc = "have_config"
    /\ PortParserFailed
    /\ port_data # <<>>
    /\ config_data = None

\* C12: when open or a read fails, in the alias pass or in the zone pass, the
\* parser does not raise and the mapping it returns has no entry, also when
\* lines were processed before the failure.
C12_EmptyMappingOnFailure ==
    [][/\ (pc = "parse_aliases" /\ stderr' # stderr) =>
              (pc' = "parse_zones" /\ existing_aliases' = EmptyDict)
       /\ (pc = "parse_zones" /\ stderr' # stderr) =>
              (pc' = "parse_switchshow" /\ existing_zones' = EmptyDict)]_vars

(***************************************************************************)
(* The path without data                                                   *)
(***************************************************************************)
\* no line of the port table is a port row (there may be no table at all)
NoPortRow == \A j \in PortTableLines : ~IsPortRow(file[j])

\* C13: when the file gives no record (no header, or no accepted row in the
\* table), parse_switchshow_from_txt returns None and main builds no alias
\* command and no zone command, writes no command file, exports no report and
\* prints no error.
C13_NoDataPath ==
    (PortsParsed /\ NoPortRow) =>
        /\ port_data = <<>>
        /\ config_data = None
        /\ pc \in {"have_config", "done"}
        /\ alias_commands = <<>>
        /\ zone_commands = <<>>
        /\ switch_commands = <<>>
        /\ output_file = None
        /\ report_file = None
        /\ stderr = <<>>

\* main has ended on a file with a port table that holds no row
C13_Witness ==
    /\ pc = "done"
    /\ PortTableLines # {}
    /\ NoPortRow
    /\ config_data = None

(***************************************************************************)
(* The last binding wins                                                   *)
(***************************************************************************)
\* the greatest element of a non-empty set of line numbers, 0 for the empty set
Latest(S) == IF S = {} THEN 0 ELSE CHOOSE m \in S : \A n \in S : n <= m

\* the name an alias: line or a zone: line carries
NameOf(l) == Strip(Split1(Strip(l), ":")[2])

\* the last alias: line before line j
LatestAliasLine(j) == Latest({i \in 1..(j - 1) : IsAliasLine(file[i])})

\* C14: a line that binds a WWPN binds it to the name of the latest alias:
\* line, replacing the name the WWPN had; the mapping keeps one entry for the
\* WWPN and the entries of the other WWPNs stay as they were.
C14_LastAliasWins ==
    [][(/\ pc = "parse_aliases"
        /\ cursor <= Len(file)
        /\ Truthy(last_alias_name)
        /\ last_alias_name' = None) =>
          LET w == Lower(WwpnSearch(Strip(file[cursor]))[1])
              later == NameOf(file[LatestAliasLine(cursor)])
          IN  /\ DOMAIN alias_map' = DOMAIN alias_map \cup {w}
              /\ alias_map'[w] = later
              /\ \A v \in DOMAIN alias_map \ {w} : alias_map'[v] = alias_map[v]]_vars

\* W1 was bound to Host1 and then to Host2, W2 to Host1 before both
C14_Witness ==
    /\ pc = "parse_zones"
    /\ file = ReboundFile
    /\ existing_aliases = DictSet(DictSet(EmptyDict, W2, "Host1"), W1, "Host2")

IsZoneLine(l) == StartsWith(Strip(l), "zone:")
IsDefinedCfgLine(l) == StartsWith(Strip(l), "Defined configuration:")

\* a Defined configuration: line lies before line j
MarkerSeen(j) == \E i \in 1..(j - 1) : IsDefinedCfgLine(file[i])

\* the last zone: line before line j
LatestZoneLine(j) == Latest({i \in 1..(j - 1) : IsZoneLine(file[i])})

\* the non-empty trimmed tokens of a members line
MemberSet(l) ==
    LET parts == SplitOn(Strip(l), ";")
    IN  {Strip(parts[k]) : k \in 1..Len(parts)} \ {""}

\* the step maps every member of the line read to the zone and leaves the
\* other entries as they were
MembersMappedTo(zone) ==
    LET members == MemberSet(file[cursor])
    IN  /\ DOMAIN alias_to_zone_map' = DOMAIN alias_to_zone_map \cup members
        /\ \A a \in members : alias_to_zone_map'[a] = zone
        /\ \A a \in DOMAIN alias_to_zone_map \ members :
              alias_to_zone_map'[a] = alias_to_zone_map[a]

\* C15: a members line maps each of its aliases to the name of the latest
\* zone: line, replacing the zone the alias had; the mapping keeps one entry
\* for each alias.
C15_LastZoneWins ==
    [][(/\ pc = "parse_zones"
        /\ cursor <= Len(file)
        /\ Truthy(current_zone_name)
        /\ current_zone_name' = None) =>
          MembersMappedTo(NameOf(file[LatestZoneLine(cursor)]))]_vars

\* Host1 and Port_3 were listed under Zone1 and then under Zone2
C15_Witness ==
    /\ pc = "parse_switchshow"
    /\ file = RezonedFile
    /\ existing_zones =
           DictSet(DictSet(EmptyDict, "Host1", "Zone2"), "Port_3", "Zone2")

(***************************************************************************)
(* The alias commands of a record sequence                                 *)
(***************************************************************************)
\* the rows of df with an alias and a WWPN that are not empty once trimmed
CompleteRows(df) ==
    {k \in 1..Len(df) : Strip(df[k].Alias) # "" /\ Strip(df[k].WWPN) # ""}

\* C16: the alias commands are, in record order, alicreate "<alias>", "<wwpn>"
\* (both trimmed) for each record whose alias and WWPN are not empty once
\* trimmed; an incomplete record gives no command and the records after it
\* still give theirs.
C16_AliasCommandPerCompleteRow ==
    (pc \in {"zone_commands", "write"} /\ config_data # None) =>
        LET df == config_data[1]
            kept == Ascending(CompleteRows(df))
        IN  alias_commands =
                [i \in 1..Len(kept) |->
                    "alicreate \"" \o Strip(df[kept[i]].Alias) \o "\", \""
                        \o Strip(df[kept[i]].WWPN) \o "\""]

\* a row whose alias is blanks only lies between two complete rows, the
\* second with blanks around its alias and its WWPN
C16_Witness ==
    /\ pc = "zone_commands"
    /\ Len(config_data[1]) = 3
    /\ config_data[1][1].Alias = "A1" /\ config_data[1][1].WWPN = W1
    /\ config_data[1][2].Alias = "  "
    /\ config_data[1][3].Alias = " A3 "
    /\ alias_commands = <<"alicreate \"A1\", \"10:00:00:00:c9:11:22:33\"",
                          "alicreate \"A3\", \"21:00:00:24:ff:4a:5b:6c\"">>

(***************************************************************************)
(* The lines parse_zones_from_txt skips and the lines it takes             *)
(***************************************************************************)
\* C17: as long as no Defined configuration: line has been read, no line
\* changes current_zone_name or alias_to_zone_map, which stay None and empty;
\* a blank line changes neither of them at any time.
C17_Gating ==
    [][(pc = "parse_zones" /\ cursor <= Len(file)) =>
          /\ ~MarkerSeen(cursor) =>
                /\ current_zone_name = None /\ current_zone_name' = None
                /\ alias_to_zone_map = EmptyDict /\ alias_to_zone_map' = EmptyDict
          /\ Strip(file[cursor]) = "" =>
                /\ current_zone_name' = current_zone_name
                /\ alias_to_zone_map' = alias_to_zone_map]_vars

\* Zone2 and its member, before the marker, give no entry; the blank line
\* after zone: Zone1 leaves the name pending for the members line
C17_Witness ==
    /\ pc = "parse_switchshow"
    /\ file = GatedFile
    /\ existing_zones =
           DictSet(DictSet(EmptyDict, "Host1", "Zone1"), "Port_3", "Zone1")

\* C18 as claimed: with a zone name pending, the first line that is neither
\* blank nor a zone: line is taken as the members line: its tokens are mapped
\* to the zone and the pending name is cleared.
C18_NextNonBlankLineIsMembers ==
    [][(/\ pc = "parse_zones"
        /\ cursor <= Len(file)
        /\ Truthy(current_zone_name)
        /\ Strip(file[cursor]) # ""
        /\ ~IsZoneLine(file[cursor])) =>
          /\ current_zone_name' = None
          /\ MembersMappedTo(current_zone_name[1])]_vars

\* C18, amended: with a zone name pending, the first line that is neither
\* blank, nor a zone: line, nor a Defined configuration: line is taken as the
\* members line; blank lines and Defined configuration: lines leave the name
\* pending; without a pending name only a zone: line changes anything, and no
\* zone: line changes the mapping; a zone: line without a name leaves no
\* pending zone.
C18_OneMembersLinePerZone ==
    [][(pc = "parse_zones" /\ cursor <= Len(file)) =>
          /\ (/\ Truthy(current_zone_name)
              /\ Strip(file[cursor]) # ""
              /\ ~IsZoneLine(file[cursor])
              /\ ~IsDefinedCfgLine(file[cursor])) =>
                /\ current_zone_name' = None
                /\ MembersMappedTo(current_zone_name[1])
          /\ (/\ Truthy(current_zone_name)
              /\ (Strip(file[cursor]) = "" \/ IsDefinedCfgLine(file[cursor]))) =>
                /\ current_zone_name' = current_zone_name
                /\ alias_to_zone_map' = alias_to_zone_map
          /\ (~Truthy(current_zone_name) /\ ~IsZoneLine(file[cursor])) =>
                /\ ~Truthy(current_zone_name')
                /\ alias_to_zone_map' = alias_to_zone_map
          /\ IsZoneLine(file[cursor]) =>
                /\ alias_to_zone_map' = alias_to_zone_map
                /\ NameOf(file[cursor]) = "" => ~Truthy(current_zone_name')]_vars

\* the marker read a second time after zone: Zone1 left the name pending: the
\* line after it gave the members of Zone1, the line after that gave nothing
C18_Witness ==
    /\ pc = "parse_switchshow"
    /\ file = MarkerAfterZoneFile
    /\ existing_zones =
           DictSet(DictSet(EmptyDict, "Host1", "Zone1"), "Port_3", "Zone1")

(***************************************************************************)
(* Text mode gives complete records                                        *)
(***************************************************************************)
\* C19: in text mode every record has an alias and a WWPN that are not
\* empty, so generate_brocade_alias_commands skips none (and prints no
\* warning): there are as many alias commands as records and switch_commands
\* is not empty whenever there is data.
C19_NoRecordSkipped ==
    /\ (PortsParsed /\ config_data # None) =>
          /\ config_data[1] # <<>>
          /\ CompleteRows(config_data[1]) = 1..Len(config_data[1])
    /\ (CommandsBuilt /\ config_data # None) =>
          /\ Len(alias_commands) = Len(config_data[1])
          /\ switch_commands # <<>>
          /\ ~\E i \in 1..Len(stderr), row \in 2..(Len(config_data[1]) + 1) :
                stderr[i] = WarnIncompleteRow(row)

\* two records, one of them with the default alias, gave two alias commands
C19_Witness ==
    /\ pc = "done"
    /\ config_data # None
    /\ Len(config_data[1]) >= 2
    /\ \E k \in 1..Len(config_data[1]) :
          StartsWith(config_data[1][k].Alias, "Port_")
    /\ Len(alias_commands) = Len(config_data[1])

(***************************************************************************)
(* The defined configuration never ends                                    *)
(***************************************************************************)
\* C20: once a Defined configuration: line has been read in_defined_config
\* is true and no line resets it: every zone: line after the marker sets the
\* pending name and every members line after it is mapped, also after the
\* heading of another section.
C20_FlagMonotone ==
    [][(pc = "parse_zones" /\ cursor <= Len(file)) =>
          /\ in_defined_config => in_defined_config'
          /\ MarkerSeen(cursor) => in_defined_config
          /\ (MarkerSeen(cursor) /\ IsZoneLine(file[cursor])) =>
                current_zone_name' = Some(NameOf(file[cursor]))
          /\ (/\ MarkerSeen(cursor)
              /\ Truthy(current_zone_name)
              /\ Strip(file[cursor]) # ""
              /\ ~IsZoneLine(file[cursor])
              /\ ~IsDefinedCfgLine(file[cursor])) =>
                MembersMappedTo(NameOf(file[LatestZoneLine(cursor)]))]_vars

\* the zone and the members line after the heading of the effective
\* configuration were processed
C20_Witness ==
    /\ pc = "parse_switchshow"
    /\ file = <<DefinedCfg, EffectiveCfg, ZoneZone1, MemberLine>>
    /\ in_defined_config
    /\ existing_zones =
           DictSet(DictSet(EmptyDict, "Host1", "Zone1"), "Port_3", "Zone1")

====
